---- MODULE Spec2Model ----
(***************************************************************************)
(* Model of src/bot.py: a Telegram bot that relays user messages to a      *)
(* chat-completion backend, keeps a token-budgeted history per chat and    *)
(* delivers replies in one or two paced chunks.                            *)
(*                                                                         *)
(* Texts are sequences of one-character strings, so that slicing, strip,   *)
(* rfind, re.split and join are computed character by character.  Python   *)
(* lists are objects of a heap addressed by reference, so that the         *)
(* aliasing between context.chat_data["history"] and the handler's local   *)
(* `history` is part of the model.                                         *)
(***************************************************************************)
EXTENDS Integers, Sequences, FiniteSets, TLC

VARIABLES
    chat_data,      \* chat id -> reference of the list under key "history", or NoKey
    heap,           \* reference -> list of messages (the Python list objects)
    tasks,          \* task id -> the locals and position of one handle_msg execution
    update,         \* the update the Application received last, and what became of it
    lastReset,      \* chat id -> the last handled message of the chat was a reset
    app,            \* the Application: its concurrent_updates setting, and how many
                    \* more updates it is given (NoLimit: any number)
    sr_text,        \* argument `text` of the _split_reply call under test
    sr_force_two,   \* argument `force_two` of that call
    sr_result,      \* the list it returned
    sr_pc,          \* "call" before the call, "ret" after it
    tl_msgs,        \* argument `msgs` of the trim_to_limit call under test
    tl_limit,       \* argument `limit` of that call
    tl_result,      \* `msgs` after the call
    tl_pc           \* "call" before the call, "ret" after it

vars == <<chat_data, heap, tasks, update, lastReset, app,
          sr_text, sr_force_two, sr_result, sr_pc,
          tl_msgs, tl_limit, tl_result, tl_pc>>

handlerVars == <<chat_data, heap, tasks, update, lastReset, app>>
splitVars == <<sr_text, sr_force_two, sr_result, sr_pc>>
trimVars == <<tl_msgs, tl_limit, tl_result, tl_pc>>

(***************************************************************************)
(* Bounds of the model.                                                    *)
(***************************************************************************)
\* longest text handed to _split_reply in the function-level specification
MaxTextLen == 6
\* longest message list handed to trim_to_limit in the function-level specification
MaxMsgs == 4
\* largest `limit` handed to trim_to_limit in the function-level specification
MaxLimit == 30
\* number of updates given to an Application that processes updates concurrently
MaxUpdates == 2

(***************************************************************************)
(* Program constants.  The two size thresholds are scaled down so that     *)
(* texts and histories of a few elements reach both sides of them:         *)
(* 250 characters -> 4, 4096 tokens -> 22.  The comparisons are the        *)
(* source's.                                                               *)
(***************************************************************************)
\* the literal 250 of `len(text) <= 250`, scaled
SPLIT_MAX_CHARS == 4
\* MAX_TOKENS_CONTEXT = 4096, scaled
MAX_TOKENS_CONTEXT == 22
\* tokens += 4, per message
TOKENS_PER_MESSAGE == 4
\* tokens += 2, priming
TOKENS_PRIMING == 2

(***************************************************************************)
(* Python str operations on sequences of characters.                       *)
(***************************************************************************)
\* characters str.strip() removes and the regex class \s matches
Whitespace == {" ", "\n"}
\* the character class [.!?] of the sentence regex
Punct == {".", "!", "?"}

Min(S) == CHOOSE m \in S : \A n \in S : m <= n
Max(S) == CHOOSE m \in S : \A n \in S : m >= n

\* s[i:j] with Python's treatment of negative and out-of-range indices
PySlice(s, i, j) ==
    LET n == Len(s)
        norm(k) == IF k < 0 THEN (IF k + n < 0 THEN 0 ELSE k + n)
                   ELSE (IF k > n THEN n ELSE k)
        a == norm(i)
        b == norm(j)
    IN  IF a >= b THEN <<>> ELSE SubSeq(s, a + 1, b)

\* s.strip()
Strip(s) ==
    LET keep == {i \in 1..Len(s) : s[i] \notin Whitespace}
    IN  IF keep = {} THEN <<>> ELSE SubSeq(s, Min(keep), Max(keep))

\* s.rfind(ch, lo, hi): highest 0-based index in [lo, hi) holding ch, else -1
RFind(s, ch, lo, hi) ==
    LET hits == {i \in lo..(hi - 1) : i < Len(s) /\ s[i + 1] = ch}
    IN  IF hits = {} THEN -1 ELSE Max(hits)

\* s.lower() over the model's alphabet
LowerChar(c) ==
    CASE c = "D" -> "d"
      [] c = "O" -> "o"
      [] c = "N" -> "n"
      [] c = "E" -> "e"
      [] c = "H" -> "h"
      [] c = "I" -> "i"
      [] OTHER -> c
Lower(s) == [i \in 1..Len(s) |-> LowerChar(s[i])]

\* `needle in s`
Contains(s, needle) ==
    \E i \in 0..(Len(s) - Len(needle)) :
        SubSeq(s, i + 1, i + Len(needle)) = needle

\* sep.join(parts)
RECURSIVE Join(_, _)
Join(sep, parts) ==
    IF parts = <<>> THEN <<>>
    ELSE IF Len(parts) = 1 THEN parts[1]
    ELSE parts[1] \o sep \o Join(sep, Tail(parts))

\* re.split(r'(?<=[.!?])\s+', text): cut out every whitespace run that
\* directly follows a punctuation character
RECURSIVE ReSplit(_)
ReSplit(s) ==
    LET starts == {i \in 2..Len(s) : s[i] \in Whitespace /\ s[i - 1] \in Punct}
    IN  IF starts = {} THEN <<s>>
        ELSE LET i == Min(starts)
                 j == Max({k \in i..Len(s) : \A m \in i..k : s[m] \in Whitespace})
             IN  <<SubSeq(s, 1, i - 1)>> \o ReSplit(SubSeq(s, j + 1, Len(s)))

(***************************************************************************)
(* _split_reply                                                            *)
(***************************************************************************)
\* the for loop over sentences: returns <<part1, part2>>
RECURSIVE SplitLoop(_, _, _, _, _)
SplitLoop(sentences, textLen, part1, part2, char_count) ==
    IF sentences = <<>> THEN <<part1, part2>>
    ELSE LET s == Head(sentences)
         IN  IF 2 * char_count < textLen \/ part1 = <<>>
             THEN SplitLoop(Tail(sentences), textLen, Append(part1, s), part2,
                            char_count + Len(s) + 1)
             ELSE SplitLoop(Tail(sentences), textLen, part1, Append(part2, s),
                            char_count)

\* the fallback taken when the regex found no sentence boundary
SplitFallback(text) ==
    LET cut == RFind(text, " ", 0, Len(text) \div 2)
    IN  <<Strip(PySlice(text, 0, cut)), Strip(PySlice(text, cut + 1, Len(text)))>>

\* the guard with `<` for `<=`
SplitShortStrict(text, force_two) == ~force_two /\ Len(text) < SPLIT_MAX_CHARS

\* the guard of the early return
SplitShort(text, force_two) == ~force_two /\ Len(text) <= SPLIT_MAX_CHARS

_split_reply(text, force_two) ==
    IF SplitShort(text, force_two) THEN <<text>>
    ELSE LET sentences == ReSplit(text)
         IN  IF Len(sentences) = 1 THEN SplitFallback(text)
             ELSE LET parts == SplitLoop(sentences, Len(text), <<>>, <<>>, 0)
                      part1 == parts[1]
                      part2 == parts[2]
                      \* everything landed in part1: move its last sentence
                      p1 == IF part2 = <<>> THEN SubSeq(part1, 1, Len(part1) - 1)
                            ELSE part1
                      p2 == IF part2 = <<>> THEN <<part1[Len(part1)]>> ELSE part2
                  IN  <<Strip(Join(<<" ">>, p1)), Strip(Join(<<" ">>, p2))>>

(***************************************************************************)
(* Token counting and trimming                                             *)
(***************************************************************************)
\* len(enc.encode(content)): the encoder is tiktoken's; the model counts one
\* token per character
EncodeLen(content) == Len(content)

num_tokens(msgs) ==
    LET RECURSIVE Sum(_)
        Sum(ms) == IF ms = <<>> THEN 0
                   ELSE TOKENS_PER_MESSAGE + EncodeLen(Head(ms).content) + Sum(Tail(ms))
    IN  Sum(msgs) + TOKENS_PRIMING

\* del msgs[0] for del msgs[1]
DelFirst(msgs) == Tail(msgs)

\* del msgs[1]
DelOldest(msgs) == <<msgs[1]>> \o SubSeq(msgs, 3, Len(msgs))

\* `if` for `while`: at most one message is dropped
TrimOnce(msgs, limit) ==
    IF Len(msgs) > 2 /\ num_tokens(msgs) > limit THEN DelOldest(msgs) ELSE msgs

RECURSIVE trim_to_limit(_, _)
trim_to_limit(msgs, limit) ==
    IF Len(msgs) > 2 /\ num_tokens(msgs) > limit
    THEN trim_to_limit(DelOldest(msgs), limit)
    ELSE msgs

(***************************************************************************)
(* Function-level specifications: the inputs are drawn in the initial      *)
(* state and one action applies the function.                              *)
(***************************************************************************)
Alphabet == {"a", ".", " ", "\n"}
Texts == UNION {[1..n -> Alphabet] : n \in 0..MaxTextLen}

Msg(role, content) == [role |-> role, content |-> content]

TrimMessages == {Msg("system", <<"Y", "o", "u">>), Msg("user", <<"h", "i">>),
                 Msg("assistant", <<"a">>), Msg("user", <<"h", "i", " ", "h", "i">>)}
MsgLists == UNION {[1..n -> TrimMessages] : n \in 0..MaxMsgs}

(***************************************************************************)
(* The bot: configuration                                                  *)
(***************************************************************************)
\* SYSTEM_PROMPT, abbreviated
SYSTEM_PROMPT == <<"Y", "o", "u">>
RESET_TRIGGER == <<"/", "d", "o", "n", "e">>
\* the three acknowledgements, abbreviated
PRESET_RESPONSES == {<<"O", "k">>, <<"O", "k", "a", "y">>, <<"O", "k", "!">>}
\* the fixed apology
OOPS == <<"O", "o", "p", "s">>

\* the chats of the model and the slots of handle_msg executions
Chats == {1, 2}
Tasks == {1, 2}
\* one list object per chat and per execution can be live at a time
Obj == 1..(Cardinality(Chats) + Cardinality(Tasks))
NoRef == 0
NoKey == 0

\* texts of inbound messages
UserTexts == {              <<"h", "i">>,
              <<"h", "i", " ", "h", "i">>,
              <<"/", "d", "o", "n", "e">>,
              <<"h", "i", " ", "/", "d", "o", "n", "e">>,
              <<"H", "i", " ", "/", "D", "O", "N", "E", "!">>}
\* message.content values the backend returns
Replies == {<<"a">>,
            <<"a", ".", " ", "a", " ", "a">>,
            <<" ">>}

IdleTask ==
    [pc |-> "idle", chat |-> 0, user_text |-> <<>>, history |-> NoRef,
     full_reply |-> <<>>, chunks |-> <<>>, ix |-> 0,
     pre |-> <<>>, handed |-> <<>>, events |-> <<>>, afterReset |-> FALSE,
     outcome |-> "none"]
NoUpdate == [chat |-> 0, text |-> <<>>, status |-> "none", task |-> 0]


(***************************************************************************)
(* The bot: helpers of handle_msg                                          *)
(***************************************************************************)
\* context.chat_data.get("history", []) as a value
Stored(c) == IF chat_data[c] = NoKey THEN <<>> ELSE heap[chat_data[c]]

\* filters.COMMAND: the text starts with a bot command ("/" and a name)
CommandChars == {"d", "o", "n", "e", "D", "O", "N", "E", "h", "i", "H", "a"}
IsCommand(text) == Len(text) >= 2 /\ text[1] = "/" /\ text[2] \in CommandChars

\* filters.TEXT & ~filters.COMMAND
FilterAccepts(text) == text # <<>> /\ ~IsCommand(text)

\* RESET_TRIGGER.lower() in user_text.lower()
IsReset(user_text) == Contains(Lower(user_text), Lower(RESET_TRIGGER))

\* the user message appended without the system message being seeded
AppendUnseeded(h, user_text) == Append(h, Msg("user", user_text))

\* `if not history: history.append(system)` and `history.append(user)`
SeedAndAppend(h, user_text) ==
    LET seeded == IF h = <<>> THEN <<Msg("system", SYSTEM_PROMPT)>> ELSE h
    IN  Append(seeded, Msg("user", user_text))

\* the last chunk recorded for the whole reply
AssistantLastChunk(full_reply, chunks) == Msg("assistant", chunks[Len(chunks)])

\* the message appended to history after delivery
AssistantMessage(full_reply, chunks) == Msg("assistant", full_reply)

\* entries of a handler's event trace
Ev(kind, role, text) == [kind |-> kind, role |-> role, text |-> text]
\* text.replace('\n', ' ')
Flatten(text) == [i \in 1..Len(text) |-> IF text[i] = "\n" THEN " " ELSE text[i]]
\* the record _log_turn appends to the log file
EvLog(role, text) == Ev("log", role, Flatten(text))
EvSend(text) == Ev("send", "", text)
EvTyping == Ev("typing", "", <<>>)
EvSleep == Ev("sleep", "", <<>>)
EvLLM == Ev("llm", "", <<>>)

\* list objects some reference reaches
Live(cd, ts) == {cd[c] : c \in Chats} \cup {ts[t].history : t \in Tasks}
\* unreachable list objects are reclaimed
Collect(h, cd, ts) == [o \in Obj |-> IF o \in Live(cd, ts) THEN h[o] ELSE <<>>]
\* one default list shared by all calls instead of a new list per call
SharedDefault == Min(Obj)

\* the object a new list is allocated at
Fresh == Min({o \in Obj : o \notin Live(chat_data, tasks)})

Running(t) == tasks[t].pc \notin {"idle", "done"}
\* the check that the previous handler has returned left out
NotAwaited == TRUE

\* no handler is between its call and its return
Serialized == \A t \in Tasks : ~Running(t)
FreeTask == Min({t \in Tasks : ~Running(t)})

NoLimit == -1
\* Application.builder().token(TELEGRAM_TOKEN).build(): concurrent_updates is
\* off unless the builder is told otherwise
AppAsBuilt == [concurrent_updates |-> FALSE, quota |-> NoLimit]
\* the next update is processed when the handler of the previous one has
\* returned, unless the Application processes updates concurrently
MayDispatch ==
    /\ app.concurrent_updates \/ Serialized
    /\ {t \in Tasks : ~Running(t)} # {}
    /\ app.quota # 0
\* one update taken from the queue
Consumed == IF app.quota = NoLimit THEN app ELSE [app EXCEPT !.quota = @ - 1]

(***************************************************************************)
(* The bot: actions.  An action runs handle_msg from one await to the next.*)
(***************************************************************************)
\* the handler filter rejects the update: handle_msg is not called
FilterReject(c, text) ==
    /\ UNCHANGED <<splitVars, trimVars>>
    /\ MayDispatch
    /\ app' = Consumed
    /\ ~FilterAccepts(text)
    /\ update' = [chat |-> c, text |-> text, status |-> "rejected", task |-> 0]
    /\ UNCHANGED <<chat_data, heap, tasks, lastReset>>

\* handle_msg up to `await msg.reply_text(reply)` of the reset branch
HandleReset(c, text, reply) ==
    /\ UNCHANGED <<splitVars, trimVars>>
    /\ MayDispatch
    /\ app' = Consumed
    /\ FilterAccepts(text)
    /\ IsReset(Strip(text))
    /\ reply \in PRESET_RESPONSES
    /\ LET t == FreeTask
           ts0 == [tasks EXCEPT ![t] = IdleTask]
           o == Min({x \in Obj : x \notin Live([chat_data EXCEPT ![c] = NoKey], ts0)})
           cd == [chat_data EXCEPT ![c] = o]
           ts == [ts0 EXCEPT ![t] =
                     [IdleTask EXCEPT !.pc = "reset_send", !.chat = c,
                                      !.user_text = Strip(text),
                                      !.full_reply = reply,
                                      !.afterReset = lastReset[c],
                                      !.events = <<EvLog("user", Strip(text))>>]]
       IN  /\ chat_data' = cd
           /\ tasks' = ts
           /\ heap' = Collect([heap EXCEPT ![o] = <<>>], cd, ts)
           /\ update' = [chat |-> c, text |-> text, status |-> "handled", task |-> t]
    /\ UNCHANGED lastReset

\* the acknowledgement is sent and logged; handle_msg returns
ResetSent(t) ==
    /\ UNCHANGED <<splitVars, trimVars, app>>
    /\ tasks[t].pc = "reset_send"
    /\ tasks' = [tasks EXCEPT ![t].pc = "done", ![t].outcome = "reset",
                              ![t].events = @ \o <<EvSend(tasks[t].full_reply),
                                                   EvLog("assistant", tasks[t].full_reply)>>]
    /\ lastReset' = [lastReset EXCEPT ![tasks[t].chat] = TRUE]
    /\ UNCHANGED <<chat_data, heap, update>>

\* handle_msg up to `await send_chat_action` of a message that is no reset
HandleStart(c, text) ==
    /\ UNCHANGED <<splitVars, trimVars>>
    /\ MayDispatch
    /\ app' = Consumed
    /\ FilterAccepts(text)
    /\ ~IsReset(Strip(text))
    /\ LET t == FreeTask
           ts == [tasks EXCEPT ![t] =
                     [IdleTask EXCEPT !.pc = "typing", !.chat = c,
                                      !.user_text = Strip(text),
                                      !.afterReset = lastReset[c],
                                      !.events = <<EvLog("user", Strip(text))>>]]
       IN  /\ tasks' = ts
           /\ heap' = Collect(heap, chat_data, ts)
           /\ update' = [chat |-> c, text |-> text, status |-> "handled", task |-> t]
    /\ UNCHANGED <<chat_data, lastReset>>

\* the typing action is done; history is fetched or created, the user message
\* appended, the list trimmed, and the inference call is made
FetchAndCall(t) ==
    /\ UNCHANGED <<splitVars, trimVars, app>>
    /\ tasks[t].pc = "typing"
    /\ LET c == tasks[t].chat
           o == IF chat_data[c] = NoKey THEN Fresh ELSE chat_data[c]
           before == IF chat_data[c] = NoKey THEN <<>> ELSE heap[o]
           h == trim_to_limit(SeedAndAppend(before, tasks[t].user_text),
                              MAX_TOKENS_CONTEXT)
       IN  /\ heap' = [heap EXCEPT ![o] = h]
           /\ tasks' = [tasks EXCEPT ![t].pc = "llm", ![t].history = o,
                                     ![t].pre = before, ![t].handed = h,
                                     ![t].events = @ \o <<EvTyping, EvLLM>>]
    /\ UNCHANGED <<chat_data, update, lastReset>>

\* the inference call returns `content`; the reply is split and the send of
\* the first chunk begins
LLMReturn(t, content) ==
    /\ UNCHANGED <<splitVars, trimVars, app>>
    /\ tasks[t].pc = "llm"
    /\ content \in Replies
    /\ tasks' = [tasks EXCEPT ![t].pc = "send",
                              ![t].full_reply = Strip(content),
                              ![t].chunks = _split_reply(Strip(content), FALSE),
                              ![t].ix = 0]
    /\ UNCHANGED <<chat_data, heap, update, lastReset>>

\* the inference call raises; the apology is about to be sent
LLMRaise(t) ==
    /\ UNCHANGED <<splitVars, trimVars, app>>
    /\ tasks[t].pc = "llm"
    /\ tasks' = [tasks EXCEPT ![t].pc = "oops_send"]
    /\ UNCHANGED <<chat_data, heap, update, lastReset>>

\* handle_msg returns from the except branch without sending the apology
OopsNotSent(t) ==
    /\ UNCHANGED <<splitVars, trimVars, app>>
    /\ tasks[t].pc = "oops_send"
    /\ LET ts == [tasks EXCEPT ![t].pc = "done", ![t].outcome = "failed",
                               ![t].history = NoRef]
       IN  /\ tasks' = ts
           /\ heap' = Collect(heap, chat_data, ts)
    /\ lastReset' = [lastReset EXCEPT ![tasks[t].chat] = FALSE]
    /\ UNCHANGED <<chat_data, update>>

\* the apology is sent; handle_msg returns and its local `history` is dropped
OopsSent(t) ==
    /\ UNCHANGED <<splitVars, trimVars, app>>
    /\ tasks[t].pc = "oops_send"
    /\ LET ts == [tasks EXCEPT ![t].pc = "done", ![t].outcome = "failed",
                               ![t].history = NoRef,
                               ![t].events = @ \o <<EvSend(OOPS)>>]
       IN  /\ tasks' = ts
           /\ heap' = Collect(heap, chat_data, ts)
    /\ lastReset' = [lastReset EXCEPT ![tasks[t].chat] = FALSE]
    /\ UNCHANGED <<chat_data, update>>

\* the send of chunk ix is done and logged; either the pause before the next
\* chunk begins, or the reply is appended to history and history is stored
ChunkSent(t) ==
    /\ UNCHANGED <<splitVars, trimVars, app>>
    /\ tasks[t].pc = "send"
    /\ tasks[t].chunks[tasks[t].ix + 1] # <<>>
    /\ LET c == tasks[t].chat
           chunk == tasks[t].chunks[tasks[t].ix + 1]
           evs == tasks[t].events \o <<EvSend(chunk), EvLog("assistant", chunk)>>
           o == tasks[t].history
       IN  IF tasks[t].ix + 1 < Len(tasks[t].chunks)
           THEN /\ tasks' = [tasks EXCEPT ![t].pc = "sleep", ![t].ix = @ + 1,
                                          ![t].events = evs]
                /\ UNCHANGED <<chat_data, heap, lastReset>>
           ELSE LET cd == [chat_data EXCEPT ![c] = o]
                    ts == [tasks EXCEPT ![t].pc = "done", ![t].outcome = "replied",
                                        ![t].history = NoRef, ![t].events = evs]
                    hp == [heap EXCEPT ![o] =
                              Append(@, AssistantMessage(tasks[t].full_reply,
                                                         tasks[t].chunks))]
                IN  /\ chat_data' = cd
                    /\ tasks' = ts
                    /\ heap' = Collect(hp, cd, ts)
                    /\ lastReset' = [lastReset EXCEPT ![c] = FALSE]
    /\ UNCHANGED update

\* Telegram refuses a message with empty text: reply_text raises, the
\* exception leaves handle_msg and nothing is appended or stored
SendRaise(t) ==
    /\ UNCHANGED <<splitVars, trimVars, app>>
    /\ tasks[t].pc = "send"
    /\ tasks[t].chunks[tasks[t].ix + 1] = <<>>
    /\ LET ts == [tasks EXCEPT ![t].pc = "done", ![t].outcome = "send_failed",
                               ![t].history = NoRef]
       IN  /\ tasks' = ts
           /\ heap' = Collect(heap, chat_data, ts)
    /\ lastReset' = [lastReset EXCEPT ![tasks[t].chat] = FALSE]
    /\ UNCHANGED <<chat_data, update>>

\* the second chunk goes out without the pause
SleepSkipped(t) ==
    /\ UNCHANGED <<splitVars, trimVars, app>>
    /\ tasks[t].pc = "sleep"
    /\ tasks' = [tasks EXCEPT ![t].pc = "typing2"]
    /\ UNCHANGED <<chat_data, heap, update, lastReset>>

\* asyncio.sleep before the second chunk is over
SleepDone(t) ==
    /\ UNCHANGED <<splitVars, trimVars, app>>
    /\ tasks[t].pc = "sleep"
    /\ tasks' = [tasks EXCEPT ![t].pc = "typing2", ![t].events = @ \o <<EvSleep>>]
    /\ UNCHANGED <<chat_data, heap, update, lastReset>>

\* the typing action before the second chunk is done; its send begins
TypingDone(t) ==
    /\ UNCHANGED <<splitVars, trimVars, app>>
    /\ tasks[t].pc = "typing2"
    /\ tasks' = [tasks EXCEPT ![t].pc = "send", ![t].events = @ \o <<EvTyping>>]
    /\ UNCHANGED <<chat_data, heap, update, lastReset>>

\* no chat has data, no handler has been called
InitNoChats ==
    /\ chat_data = [c \in Chats |-> NoKey]
    /\ heap = [o \in Obj |-> <<>>]
    /\ tasks = [t \in Tasks |-> IdleTask]
    /\ update = NoUpdate
    /\ lastReset = [c \in Chats |-> FALSE]

InitHandlerIdle ==
    /\ InitNoChats
    /\ app = AppAsBuilt

InitSplitIdle ==
    /\ sr_text = <<>>
    /\ sr_force_two = FALSE
    /\ sr_result = <<>>
    /\ sr_pc = "off"

InitTrimIdle ==
    /\ tl_msgs = <<>>
    /\ tl_limit = 0
    /\ tl_result = <<>>
    /\ tl_pc = "off"

\* a call _split_reply(text, force_two)
InitSplit ==
    /\ sr_text \in Texts
    /\ sr_force_two \in BOOLEAN
    /\ sr_result = <<>>
    /\ sr_pc = "call"
    /\ InitHandlerIdle
    /\ InitTrimIdle

SplitReply ==
    /\ sr_pc = "call"
    /\ sr_result' = _split_reply(sr_text, sr_force_two)
    /\ sr_pc' = "ret"
    /\ UNCHANGED <<sr_text, sr_force_two, handlerVars, trimVars>>

SpecSplit == InitSplit /\ [][SplitReply]_vars

\* a call trim_to_limit(msgs, limit)
InitTrim ==
    /\ tl_msgs \in MsgLists
    /\ tl_limit \in 0..MaxLimit
    /\ tl_result = <<>>
    /\ tl_pc = "call"
    /\ InitHandlerIdle
    /\ InitSplitIdle

TrimToLimit ==
    /\ tl_pc = "call"
    /\ tl_result' = trim_to_limit(tl_msgs, tl_limit)
    /\ tl_pc' = "ret"
    /\ UNCHANGED <<tl_msgs, tl_limit, handlerVars, splitVars>>

SpecTrim == InitTrim /\ [][TrimToLimit]_vars

(***************************************************************************)
(* The bot as wired in main()                                              *)
(***************************************************************************)
Init ==
    /\ InitHandlerIdle
    /\ InitSplitIdle
    /\ InitTrimIdle

Next ==
    \/ \E c \in Chats, text \in UserTexts : FilterReject(c, text)
    \/ \E c \in Chats, text \in UserTexts, reply \in PRESET_RESPONSES :
          HandleReset(c, text, reply)
    \/ \E c \in Chats, text \in UserTexts : HandleStart(c, text)
    \/ \E t \in Tasks : ResetSent(t)
    \/ \E t \in Tasks : FetchAndCall(t)
    \/ \E t \in Tasks, content \in Replies : LLMReturn(t, content)
    \/ \E t \in Tasks : LLMRaise(t)
    \/ \E t \in Tasks : OopsSent(t)
    \/ \E t \in Tasks : ChunkSent(t)
    \/ \E t \in Tasks : SendRaise(t)
    \/ \E t \in Tasks : SleepDone(t)
    \/ \E t \in Tasks : TypingDone(t)

Spec == Init /\ [][Next]_vars

\* one step of the handler of task t: the awaited call it is suspended at
\* completes, returning or raising
Resume(t) ==
    \/ ResetSent(t)
    \/ FetchAndCall(t)
    \/ \E content \in Replies : LLMReturn(t, content)
    \/ LLMRaise(t)
    \/ OopsSent(t)
    \/ ChunkSent(t)
    \/ SendRaise(t)
    \/ SleepDone(t)
    \/ TypingDone(t)

\* every awaited call completes: the event loop resumes the handler
SpecLive == Spec /\ \A t \in Tasks : WF_vars(Resume(t))

(***************************************************************************)
(* The same handler under an Application that may process updates          *)
(* concurrently (concurrent_updates on), given MaxUpdates updates          *)
(***************************************************************************)
\* the first chat was just reset: its key holds an empty list
InitAfterReset ==
    /\ chat_data = [c \in Chats |-> IF c = Min(Chats) THEN Min(Obj) ELSE NoKey]
    /\ heap = [o \in Obj |-> <<>>]
    /\ tasks = [t \in Tasks |-> IdleTask]
    /\ update = NoUpdate
    /\ lastReset = [c \in Chats |-> c = Min(Chats)]

\* the first chat has had one turn: its key holds the list of that turn
InitAfterTurn ==
    /\ chat_data = [c \in Chats |-> IF c = Min(Chats) THEN Min(Obj) ELSE NoKey]
    /\ heap = [o \in Obj |->
                  IF o = Min(Obj)
                  THEN Append(SeedAndAppend(<<>>, <<"h", "i">>),
                              AssistantMessage(<<"a">>, <<<<"a">>>>))
                  ELSE <<>>]
    /\ tasks = [t \in Tasks |-> IdleTask]
    /\ update = NoUpdate
    /\ lastReset = [c \in Chats |-> FALSE]

InitConcurrent ==
    /\ InitNoChats \/ InitAfterReset \/ InitAfterTurn
    /\ app \in {[concurrent_updates |-> b, quota |-> MaxUpdates] : b \in BOOLEAN}
    /\ InitSplitIdle
    /\ InitTrimIdle

SpecConcurrent == InitConcurrent /\ [][Next]_vars

(***************************************************************************)
(* Properties of trim_to_limit (SpecTrim)                                  *)
(***************************************************************************)
\* C2: when trim_to_limit returns, the list has at most 2 messages or its
\* token count is within the limit.
C2_TrimWithinLimit ==
    tl_pc = "ret" => (Len(tl_result) <= 2 \/ num_tokens(tl_result) <= tl_limit)

\* a list of 4 over the limit is cut to 3 messages that fit
C2_Witness ==
    /\ tl_pc = "ret"
    /\ Len(tl_msgs) = 4
    /\ num_tokens(tl_msgs) > tl_limit
    /\ Len(tl_result) = 3
    /\ num_tokens(tl_result) <= tl_limit

\* C3: trim_to_limit removes only at position 1: the result is element 0 and
\* a suffix of the input in order, so the first and the last message stay; a
\* list of at most 2 messages is returned as it is, whatever its token count.
C3_TrimKeepsEnds ==
    tl_pc = "ret" =>
        /\ Len(tl_msgs) <= 2 => tl_result = tl_msgs
        /\ Len(tl_msgs) >= 2 =>
              /\ \E k \in 2..Len(tl_msgs) :
                    tl_result = <<tl_msgs[1]>> \o SubSeq(tl_msgs, k, Len(tl_msgs))
              /\ tl_result[1] = tl_msgs[1]
              /\ tl_result[Len(tl_result)] = tl_msgs[Len(tl_msgs)]

\* a list of 4 is cut down to system + latest and stops there, still over limit
C3_Witness ==
    /\ tl_pc = "ret"
    /\ Len(tl_msgs) = 4
    /\ tl_result = <<tl_msgs[1], tl_msgs[4]>>
    /\ tl_msgs[1] # tl_msgs[2]
    /\ num_tokens(tl_result) > tl_limit

(***************************************************************************)
(* Properties of _split_reply (SpecSplit)                                  *)
(***************************************************************************)
\* whitespace collapsing: every whitespace run becomes one space, none at the ends
RECURSIVE Collapse(_)
Collapse(s) ==
    LET t == Strip(s)
        ws == {i \in 1..Len(t) : t[i] \in Whitespace}
    IN  IF ws = {} THEN t
        ELSE LET i == Min(ws)
             IN  SubSeq(t, 1, i - 1) \o <<" ">> \o Collapse(SubSeq(t, i + 1, Len(t)))

\* the call has to split: force_two, or a text longer than the threshold
MustSplit == sr_force_two \/ Len(sr_text) > SPLIT_MAX_CHARS

\* C6: with force_two, every non-empty text yields exactly 2 chunks, both
\* non-empty.
C6_ForceTwoNonEmpty ==
    (sr_pc = "ret" /\ sr_force_two /\ sr_text # <<>>) =>
        /\ Len(sr_result) = 2
        /\ sr_result[1] # <<>>
        /\ sr_result[2] # <<>>

\* C7: the chunks joined by one space are the text up to whitespace
\* collapsing: nothing dropped, duplicated or invented.
C7_RoundTrip ==
    sr_pc = "ret" => Collapse(Join(<<" ">>, sr_result)) = Collapse(sr_text)

\* C8: a single-sentence text that has to be split is cut at the whitespace
\* character nearest the midpoint, on either side, or at the midpoint index
\* when it has no whitespace; both halves are stripped.
C8_NearestWhitespace ==
    (sr_pc = "ret" /\ MustSplit /\ Len(ReSplit(sr_text)) = 1) =>
        LET n == Len(sr_text)
            mid == n \div 2
            ws == {i \in 0..(n - 1) : sr_text[i + 1] \in Whitespace}
            dist(i) == IF i >= mid THEN i - mid ELSE mid - i
            nearest == {i \in ws : \A j \in ws : dist(i) <= dist(j)}
        IN  IF ws = {}
            THEN sr_result = <<Strip(PySlice(sr_text, 0, mid)),
                               Strip(PySlice(sr_text, mid, n))>>
            ELSE \E i \in nearest :
                    sr_result = <<Strip(PySlice(sr_text, 0, i)),
                                  Strip(PySlice(sr_text, i + 1, n))>>

\* C9: without force_two, a text of at most the threshold length comes back
\* as the one-element list holding it unchanged.
C9_ShortIsOneChunk ==
    (sr_pc = "ret" /\ ~sr_force_two /\ Len(sr_text) <= SPLIT_MAX_CHARS) =>
        sr_result = <<sr_text>>

\* a text of exactly the threshold length, with a sentence boundary and outer
\* whitespace, is returned whole
C9_Witness ==
    /\ sr_pc = "ret"
    /\ ~sr_force_two
    /\ Len(sr_text) = SPLIT_MAX_CHARS
    /\ Len(ReSplit(sr_text)) = 2
    /\ Strip(sr_text) # sr_text
    /\ sr_result = <<sr_text>>

(***************************************************************************)
(* Properties of handle_msg as wired in main (Spec)                        *)
(***************************************************************************)
SystemMsg == Msg("system", SYSTEM_PROMPT)
Past(t, outcome) == tasks[t].pc = "done" /\ tasks[t].outcome = outcome
NumAssistant(h) == Cardinality({i \in 1..Len(h) : h[i].role = "assistant"})
SentTexts(t) ==
    SelectSeq(tasks[t].events, LAMBDA e : e.kind = "send")
CalledLLM(t) == \E i \in 1..Len(tasks[t].events) : tasks[t].events[i].kind = "llm"

\* C1: when the inference call raised, the stored history of the chat ends
\* with the user message of that turn and has gained no assistant message,
\* whatever the session state was (never stored, just reset, or ongoing).
C1_FailureKeepsUserMessage ==
    \A t \in Tasks :
        Past(t, "failed") =>
            LET h == Stored(tasks[t].chat)
            IN  /\ h # <<>>
                /\ h[Len(h)] = Msg("user", tasks[t].user_text)
                /\ NumAssistant(h) <= NumAssistant(tasks[t].pre)

\* C4: after a reset is handled the stored history is the empty list, and for
\* the next message of the chat that is no reset, the history handed to the
\* backend and the history stored afterwards begin with the system message
\* followed by that user message.
C4_ResetThenReseed ==
    \A t \in Tasks :
        LET c == tasks[t].chat
            user == Msg("user", tasks[t].user_text)
        IN  /\ Past(t, "reset") => (chat_data[c] # NoKey /\ heap[chat_data[c]] = <<>>)
            /\ (tasks[t].afterReset
                  /\ tasks[t].pc \in {"llm", "oops_send", "send", "sleep", "typing2"})
               => tasks[t].handed = <<SystemMsg, user>>
            /\ (tasks[t].afterReset /\ tasks[t].pc = "done"
                  /\ tasks[t].outcome # "reset")
               => /\ tasks[t].handed = <<SystemMsg, user>>
                  /\ Len(Stored(c)) >= 2
                  /\ Stored(c)[1] = SystemMsg
                  /\ Stored(c)[2] = user

\* the first message after a reset was answered: system, user, assistant
C4_Witness ==
    \E t \in Tasks :
        /\ Past(t, "replied")
        /\ tasks[t].afterReset
        /\ tasks[t].pre = <<>>
        /\ Stored(tasks[t].chat) =
              <<SystemMsg, Msg("user", tasks[t].user_text),
                Msg("assistant", tasks[t].full_reply)>>

\* C5: every inbound text that contains the reset trigger, in any letter case
\* and at any position including the start, resets the chat's history, is
\* answered by exactly one acknowledgement of PRESET_RESPONSES and causes no
\* inference call.
C5_TriggerAlwaysResets ==
    (update.status # "none" /\ IsReset(update.text)) =>
        /\ update.status = "handled"
        /\ LET t == update.task
           IN  tasks[t].pc = "done" =>
                  /\ Stored(update.chat) = <<>>
                  /\ Len(SentTexts(t)) = 1
                  /\ SentTexts(t)[1].text \in PRESET_RESPONSES
                  /\ ~CalledLLM(t)

\* C10: after a successful turn the stored history is the trimmed history
\* that was handed to the backend, which ends with the user message, plus one
\* assistant message holding the whole reply, however many chunks were sent;
\* from an empty history the result is system, user, assistant.
C10_TurnAddsUserAndReply ==
    \A t \in Tasks :
        Past(t, "replied") =>
            LET h == Stored(tasks[t].chat)
                user == Msg("user", tasks[t].user_text)
                reply == Msg("assistant", tasks[t].full_reply)
                n == Len(tasks[t].handed)
            IN  /\ n >= 2
                /\ tasks[t].handed[n] = user
                /\ h = tasks[t].handed \o <<reply>>
                /\ Len(tasks[t].chunks) \in {1, 2}
                /\ tasks[t].pre = <<>> => h = <<SystemMsg, user, reply>>

\* a reply sent as 2 chunks was stored whole on top of a trimmed history
C10_Witness ==
    \E t \in Tasks :
        /\ Past(t, "replied")
        /\ Len(tasks[t].chunks) = 2
        /\ Len(tasks[t].handed) < Len(tasks[t].pre) + 1
        /\ Stored(tasks[t].chat)[Len(tasks[t].handed) + 1].content = tasks[t].full_reply

\* positions of the send events in a handler's event trace, in order
SendPositions(t) == {i \in 1..Len(tasks[t].events) : tasks[t].events[i].kind = "send"}
\* the reply of the backend has been split and is being, or has been, delivered
Delivering(t) == tasks[t].chunks # <<>>

\* C11: the chunks of a reply are sent in list order, one at a time: when the
\* send of a chunk begins, the sends of all chunks before it are done; the
\* first send comes after a typing signal and no pause, and every later send
\* comes right after a pause and then a typing signal, which follow the
\* previous chunk's send.
C11_PacedInOrder ==
    \A t \in Tasks :
        Delivering(t) =>
            LET ev == tasks[t].events
                pos == SendPositions(t)
                k == Cardinality(pos)
                sent == SentTexts(t)
            IN  /\ k <= Len(tasks[t].chunks)
                /\ \A j \in 1..k : sent[j].text = tasks[t].chunks[j]
                /\ tasks[t].pc \in {"send", "sleep", "typing2"} => k = tasks[t].ix
                /\ Past(t, "replied") => k = Len(tasks[t].chunks)
                /\ \A i \in pos :
                      IF i = Min(pos)
                      THEN /\ \E m \in 1..(i - 1) : ev[m] = EvTyping
                           /\ \A m \in 1..(i - 1) : ev[m] # EvSleep
                      ELSE /\ i > 4
                           /\ ev[i - 1] = EvTyping
                           /\ ev[i - 2] = EvSleep
                           /\ ev[i - 3].kind = "log"
                           /\ ev[i - 4].kind = "send"

\* a reply of 2 chunks has been delivered with the pause in between
C11_Witness ==
    \E t \in Tasks :
        /\ Past(t, "replied")
        /\ Len(tasks[t].chunks) = 2
        /\ Len(SentTexts(t)) = 2
        /\ \E i \in 1..Len(tasks[t].events) : tasks[t].events[i] = EvSleep

\* C12: when the inference call raised, the apology is the only text sent for
\* that message: no chunk, no acknowledgement, and the delivery loop is not
\* reached.
C12_OnlyApology ==
    \A t \in Tasks :
        /\ tasks[t].pc = "oops_send" => (SentTexts(t) = <<>> /\ ~Delivering(t))
        /\ Past(t, "failed") =>
              /\ SentTexts(t) = <<EvSend(OOPS)>>
              /\ ~Delivering(t)
              /\ \A i \in 1..Len(tasks[t].events) :
                    tasks[t].events[i].role # "assistant"

\* the inference call raised and the apology went out
C12_Witness ==
    \E t \in Tasks :
        /\ Past(t, "failed")
        /\ CalledLLM(t)
        /\ SentTexts(t) = <<EvSend(OOPS)>>

\* the handler has read the chat's history and has not returned
PastHistoryRead(t) == tasks[t].pc \in {"llm", "oops_send", "send", "sleep", "typing2"}

\* C13: handling within one chat is serialized: while a handler that has read
\* the chat's history has not returned, no other handler of that chat has
\* started, so none overlaps it at the inference call or at the pause.
C13_SerializedPerChat ==
    \A t \in Tasks :
        PastHistoryRead(t) =>
            \A u \in Tasks \ {t} :
                ~(Running(u) /\ tasks[u].chat = tasks[t].chat)

\* a handler waits in the pause between two chunks of a chat that has had an
\* earlier turn, and is the only one running
C13_Witness ==
    \E t \in Tasks :
        /\ tasks[t].pc = "sleep"
        /\ tasks[t].pre # <<>>
        /\ \A u \in Tasks \ {t} : ~Running(u)

\* a plain message, no reset
PlainText == <<"h", "i">>

\* C14: a step of a handler of chat A changes the stored history of no other
\* chat, and after a backend failure in chat A a message of any other chat B
\* can still be taken up by a handler.
C14_ChatsIndependent ==
    /\ [][\A b \in Chats :
             Stored(b)' # Stored(b) =>
                 \E t \in Tasks : tasks'[t] # tasks[t] /\ tasks'[t].chat = b]_vars
    /\ [](\A t \in Tasks :
             Past(t, "failed") =>
                 \A b \in Chats \ {tasks[t].chat} : ENABLED HandleStart(b, PlainText))

\* a message of chat B has been answered while the history of chat A is as a
\* failed turn left it: ending with a user message that got no reply
C14_Witness ==
    \E t \in Tasks :
        /\ Past(t, "replied")
        /\ \E a \in Chats \ {tasks[t].chat} :
              /\ Stored(a) # <<>>
              /\ Stored(a)[Len(Stored(a))].role = "user"

\* the records a handler appended to the turn log, in order
LogRecords(t) == SelectSeq(tasks[t].events, LAMBDA e : e.kind = "log")

\* C15: a successful turn appends exactly one user record and exactly one
\* assistant record to the turn log, the latter holding the whole reply as it
\* was before splitting, whether 1 or 2 chunks were sent.
C15_OneRecordPerTurn ==
    \A t \in Tasks :
        Past(t, "replied") =>
            LogRecords(t) = <<EvLog("user", tasks[t].user_text),
                              EvLog("assistant", tasks[t].full_reply)>>

\* the handler of task t dropped at least one message when it trimmed
Truncated(t) ==
    /\ tasks[t].handed # <<>>
    /\ Len(tasks[t].handed) < Len(SeedAndAppend(tasks[t].pre, tasks[t].user_text))

\* C16: every chat's history, stored or being built by a handler, is empty or
\* starts with the system prompt message, and the list a handler trimmed still
\* starts with it.
C16_SystemPromptFirst ==
    /\ \A c \in Chats : Stored(c) = <<>> \/ Stored(c)[1] = SystemMsg
    /\ \A t \in Tasks :
           /\ tasks[t].history # NoRef =>
                  \/ heap[tasks[t].history] = <<>>
                  \/ heap[tasks[t].history][1] = SystemMsg
           /\ tasks[t].handed # <<>> => tasks[t].handed[1] = SystemMsg

\* a turn that truncated has completed and its chat's history still starts
\* with the system prompt
C16_Witness ==
    \E t \in Tasks :
        /\ Past(t, "replied")
        /\ Truncated(t)
        /\ Stored(tasks[t].chat) # <<>>
        /\ Stored(tasks[t].chat)[1] = SystemMsg

(***************************************************************************)
(* The sentence rule of _split_reply (SpecSplit)                           *)
(***************************************************************************)
\* the running count after the first k sentences: sentence length + 1 each
RECURSIVE RunningCount(_, _)
RunningCount(sentences, k) ==
    IF k = 0 THEN 0
    ELSE RunningCount(sentences, k - 1) + Len(sentences[k]) + 1

\* the length of the shortest non-empty prefix of the sentences whose running
\* count reaches half the text length; all of them when none does
HalfPrefix(sentences, textLen) ==
    LET reach == {k \in 1..Len(sentences) :
                      2 * RunningCount(sentences, k) >= textLen}
    IN  IF reach = {} THEN Len(sentences) ELSE Min(reach)

\* C17: a text that has to be split and has at least two sentences yields
\* exactly 2 chunks: the space-joined shortest prefix of the sentences whose
\* running count reaches half the text length, then the space-joined rest,
\* the last sentence of chunk 1 moving to chunk 2 when the rest is empty; the
\* second chunk is never empty.
C17_SentenceSplit ==
    (sr_pc = "ret" /\ MustSplit /\ Len(ReSplit(sr_text)) >= 2) =>
        LET sentences == ReSplit(sr_text)
            n == Len(sentences)
            h == HalfPrefix(sentences, Len(sr_text))
            k == IF h = n THEN n - 1 ELSE h
        IN  /\ Len(sr_result) = 2
            /\ sr_result[1] = Strip(Join(<<" ">>, SubSeq(sentences, 1, k)))
            /\ sr_result[2] = Strip(Join(<<" ">>, SubSeq(sentences, k + 1, n)))
            /\ sr_result[2] # <<>>

(***************************************************************************)
(* The token budget and the stored history (Spec)                          *)
(***************************************************************************)
\* no handler is in progress
Quiescent == \A t \in Tasks : ~Running(t)

\* the list is within the budget, or too short to be trimmed
WithinBudget(h) == Len(h) <= 2 \/ num_tokens(h) <= MAX_TOKENS_CONTEXT

\* the history without the assistant message a completed turn appended last
WithoutLastReply(h) ==
    IF h # <<>> /\ h[Len(h)].role = "assistant" THEN SubSeq(h, 1, Len(h) - 1)
    ELSE h

\* C18 as stated: whenever no handler is in progress, every chat's stored
\* history has at most 2 messages or is within the token budget, also right
\* after an assistant reply was appended.
C18_StoredWithinBudget ==
    Quiescent => \A c \in Chats : WithinBudget(Stored(c))

\* C18 amended: whenever no handler is in progress, every chat's stored
\* history, less the assistant reply appended last, has at most 2 messages or
\* is within the token budget; the reply is appended after trimming and is
\* not trimmed until the next user message.
C18_PromptWithinBudget ==
    Quiescent => \A c \in Chats : WithinBudget(WithoutLastReply(Stored(c)))

\* a turn that truncated has completed and left a stored history over the
\* budget only by the reply it appended
C18_Witness ==
    /\ Quiescent
    /\ \E t \in Tasks :
           /\ Past(t, "replied")
           /\ Truncated(t)
           /\ ~WithinBudget(Stored(tasks[t].chat))
           /\ WithinBudget(WithoutLastReply(Stored(tasks[t].chat)))

(***************************************************************************)
(* Two handlers of one chat at once (SpecConcurrent)                       *)
(***************************************************************************)
NumUser(h) == Cardinality({i \in 1..Len(h) : h[i].role = "user"})

\* two turns of chat c completed, neither truncated, and the stored history
\* holds the user message of only one of them
LostUpdate(c) ==
    \E t, u \in Tasks :
        /\ t # u
        /\ Past(t, "replied") /\ tasks[t].chat = c /\ ~Truncated(t)
        /\ Past(u, "replied") /\ tasks[u].chat = c /\ ~Truncated(u)
        /\ NumUser(Stored(c)) < 2

\* the stored history has two assistant messages in a row: the user messages
\* of two turns were appended before either reply was
InterleavedAppends(c) ==
    \E i \in 1..(Len(Stored(c)) - 1) :
        /\ Stored(c)[i].role = "assistant"
        /\ Stored(c)[i + 1].role = "assistant"

\* a reset of chat c completed, and the stored history is the list a turn had
\* read before the reset, messages older than the reset included
ResetOverwritten(c) ==
    \E t, u \in Tasks :
        /\ t # u
        /\ Past(u, "reset") /\ tasks[u].chat = c
        /\ Past(t, "replied") /\ tasks[t].chat = c
        /\ tasks[t].pre # <<>>
        /\ Stored(c) = Append(tasks[t].handed,
                              AssistantMessage(tasks[t].full_reply, tasks[t].chunks))

Corrupted(c) == LostUpdate(c) \/ InterleavedAppends(c) \/ ResetOverwritten(c)

\* C19: the history of a chat is corrupted (a completed turn's message
\* missing, two turns' appends interleaved, or a completed reset overwritten
\* by an earlier handler's final write) only under an Application that
\* processes updates concurrently; the witness shows that it then is reached.
C19_CorruptionNeedsConcurrency ==
    \A c \in Chats : Corrupted(c) => app.concurrent_updates

\* two handlers of one chat ran at once and left its history corrupted
C19_Witness ==
    /\ app.concurrent_updates
    /\ Quiescent
    /\ \E c \in Chats : Corrupted(c)

(***************************************************************************)
(* Every message is answered (SpecLive)                                    *)
(***************************************************************************)
\* what the handler of task t sent is one acknowledgement, or the apology, or
\* the 1 or 2 chunks of the reply
Answered(t) ==
    LET sent == SentTexts(t)
    IN  /\ sent # <<>>
        /\ \/ \E ack \in PRESET_RESPONSES : sent = <<EvSend(ack)>>
           \/ sent = <<EvSend(OOPS)>>
           \/ /\ Len(tasks[t].chunks) \in {1, 2}
              /\ sent = [i \in 1..Len(tasks[t].chunks) |-> EvSend(tasks[t].chunks[i])]

\* C20: when every awaited call completes, every handler that was called
\* returns, and it returns having sent at least one text: exactly one reset
\* acknowledgement, or the apology, or the 1 or 2 reply chunks.
C20_EventuallyAnswered ==
    \A t \in Tasks :
        /\ Running(t) ~> (tasks[t].pc = "done")
        /\ [](tasks[t].pc = "done" => Answered(t))

====
